---- MODULE Spec2Model ----
(***************************************************************************)
(* Dataflow graph of one MIR body (rapx/src/analysis/core/dataflow/        *)
(* graph.rs): the builder (add_statm_to_graph, add_terminator_to_graph     *)
(* and the steps inside them) and the queries built on dfs.                *)
(*                                                                         *)
(* A Local or an EdgeIdx i is the 0-based index of the source; it lives at *)
(* position i + 1 of the sequence that models the IndexVec.                *)
(***************************************************************************)
EXTENDS Integers, Sequences, FiniteSets, TLC

VARIABLES
    graph,      \* the Graph under construction: argc, n_locals, nodes, edges,
                \* and panic, TRUE once a todo!() / unwrap() aborted the build
    prog,       \* history: the statements and terminators processed so far
    batch,      \* history: batch[e + 1] is the instruction that pushed edge e
    before      \* history: the graph as the last instruction found it

vars == <<graph, prog, batch, before>>

-----------------------------------------------------------------------------
(* Bounds of the model *)

\* statements and terminators fed to one graph (Spec)
MaxInstr == 2

\* projection steps of one place (SpecOne)
MaxProj == 2

\* operands of an aggregate, arguments of a call (SpecOne)
MaxOperands == 2

-----------------------------------------------------------------------------
(* NodeOp, EdgeOp, GraphNode, Graph *)

NodeOp(tag, arg) == [tag |-> tag, arg |-> arg]

EdgeOp(tag, arg) == [tag |-> tag, arg |-> arg]

GraphEdge(src, dst, op, seq) == [src |-> src, dst |-> dst, op |-> op, seq |-> seq]

DUMMY_SP == 0

GraphNode_new ==
    [op |-> NodeOp("Nop", ""), span |-> DUMMY_SP, seq |-> 0,
     out_edges |-> <<>>, in_edges |-> <<>>]

Graph_new(a, n) ==
    [argc |-> a, n_locals |-> n,
     nodes |-> [i \in 1..n |-> GraphNode_new],
     edges |-> <<>>,
     panic |-> FALSE]

\* The graph after a todo!() or a failed unwrap(): the call unwinds, and no
\* later step of the instruction runs.
Unwind(g) == [g EXCEPT !.panic = TRUE]

\* nodes.push(node): the new Local is the old length
PushNode(g, node) == [g EXCEPT !.nodes = Append(@, node)]

SetNodeOp(g, dst, op) ==
    IF g.panic THEN g ELSE [g EXCEPT !.nodes[dst + 1].op = op]

SetNodeSpan(g, dst, span) ==
    IF g.panic THEN g ELSE [g EXCEPT !.nodes[dst + 1].span = span]

\* IncNodeSeq with the increment forgotten
IncNodeSeq_forgotten(g, dst) == g

\* IncNodeSeq reached although the match before it aborted
IncNodeSeq_after_abort(g, dst) == [g EXCEPT !.nodes[dst + 1].seq = @ + 1]

\* IncNodeSeq counting in a counter that is not part of the graph being built
IncNodeSeq_shared(g, dst) ==
    IF g.panic THEN g
    ELSE [g EXCEPT !.nodes[dst + 1].seq =
            (IF dst < Len(graph.nodes) THEN graph.nodes[dst + 1].seq ELSE @) + 1]

IncNodeSeq(g, dst) ==
    IF g.panic THEN g ELSE [g EXCEPT !.nodes[dst + 1].seq = @ + 1]

\* add_node_edge stamping the edge with the seq of its source
add_node_edge_src_seq(g, src, dst, op) ==
    IF g.panic THEN g
    ELSE LET seq == g.nodes[src + 1].seq
             edge_idx == Len(g.edges)
             g1 == [g EXCEPT !.edges = Append(@, GraphEdge(src, dst, op, seq))]
             g2 == [g1 EXCEPT !.nodes[dst + 1].in_edges = Append(@, edge_idx)]
         IN [g2 EXCEPT !.nodes[src + 1].out_edges = Append(@, edge_idx)]

\* add_node_edge putting the new edge first in the in_edges of its dst
add_node_edge_front(g, src, dst, op) ==
    IF g.panic THEN g
    ELSE LET seq == g.nodes[dst + 1].seq
             edge_idx == Len(g.edges)
             g1 == [g EXCEPT !.edges = Append(@, GraphEdge(src, dst, op, seq))]
             g2 == [g1 EXCEPT !.nodes[dst + 1].in_edges = <<edge_idx>> \o @]
         IN [g2 EXCEPT !.nodes[src + 1].out_edges = Append(@, edge_idx)]

add_node_edge(g, src, dst, op) ==
    IF g.panic THEN g
    ELSE LET seq == g.nodes[dst + 1].seq
             edge_idx == Len(g.edges)
             g1 == [g EXCEPT !.edges = Append(@, GraphEdge(src, dst, op, seq))]
             g2 == [g1 EXCEPT !.nodes[dst + 1].in_edges = Append(@, edge_idx)]
         IN [g2 EXCEPT !.nodes[src + 1].out_edges = Append(@, edge_idx)]

\* add_const_edge that pushes no node for the constant
add_const_edge_no_node(g, text, dst, op) ==
    IF g.panic THEN g
    ELSE LET seq == g.nodes[dst + 1].seq
             src == Len(g.nodes)
             edge_idx == Len(g.edges)
             g2 == [g EXCEPT !.edges = Append(@, GraphEdge(src, dst, op, seq))]
         IN [g2 EXCEPT !.nodes[dst + 1].in_edges = Append(@, edge_idx)]

add_const_edge(g, text, dst, op) ==
    IF g.panic THEN g
    ELSE LET seq == g.nodes[dst + 1].seq
             const_node == [GraphNode_new EXCEPT !.op = NodeOp("Const", text)]
             src == Len(g.nodes)
             g1 == PushNode(g, const_node)
             edge_idx == Len(g1.edges)
             g2 == [g1 EXCEPT !.edges = Append(@, GraphEdge(src, dst, op, seq))]
         IN [g2 EXCEPT !.nodes[dst + 1].in_edges = Append(@, edge_idx)]

-----------------------------------------------------------------------------
(* The MIR the builder reads: places, operands, rvalues, instructions *)

PlaceElem(k, idx, name) == [k |-> k, idx |-> idx, name |-> name]

Place(local, projection) == [local |-> local, projection |-> projection]

NoPlace == Place(0, <<>>)

Operand(k, place, text, cst) == [k |-> k, place |-> place, text |-> text, cst |-> cst]

Rvalue(k, ops, place, bk, agg) ==
    [k |-> k, ops |-> ops, place |-> place, bk |-> bk, agg |-> agg]

NoRvalue == Rvalue("None", <<>>, NoPlace, "", "")

NoOperand == Operand("None", NoPlace, "", "")

\* One instruction of a basic block. io is "statement" or "terminator"; kind is
\* the StatementKind ("Assign" or another) or the TerminatorKind ("Call" or
\* another); place is the assigned place or the call's destination; span is
\* source_info.span.
Instr(io, kind, place, rvalue, func, args, span) ==
    [io |-> io, kind |-> kind, place |-> place, rvalue |-> rvalue,
     func |-> func, args |-> args, span |-> span]

-----------------------------------------------------------------------------
(* parse_place *)

\* parse_one_step pushing the edge of the index slot before the edge of the
\* indexed object
parse_one_step_index_first(g, src, place_elem) ==
    LET dst == Len(g.nodes)
        g1 == PushNode(g, GraphNode_new)
        g2 == CASE place_elem.k = "Deref" ->
                     add_node_edge(g1, src, dst, EdgeOp("Deref", ""))
                [] place_elem.k = "Field" ->
                     add_node_edge(g1, src, dst, EdgeOp("Field", place_elem.name))
                [] place_elem.k = "Downcast" ->
                     IF place_elem.name = "None"
                     THEN Unwind(g1)
                     ELSE add_node_edge(g1, src, dst, EdgeOp("Downcast", place_elem.name))
                [] place_elem.k = "Index" ->
                     add_node_edge(add_node_edge(g1, place_elem.idx, dst, EdgeOp("Index", "")),
                                   src, dst, EdgeOp("Index", ""))
                [] place_elem.k = "ConstantIndex" ->
                     add_node_edge(g1, src, dst, EdgeOp("ConstIndex", ""))
                [] place_elem.k = "Subslice" ->
                     add_node_edge(g1, src, dst, EdgeOp("SubSlice", ""))
                [] OTHER -> Unwind(g1)
    IN [g |-> g2, ret |-> dst]

parse_one_step(g, src, place_elem) ==
    LET dst == Len(g.nodes)
        g1 == PushNode(g, GraphNode_new)
        g2 == CASE place_elem.k = "Deref" ->
                     add_node_edge(g1, src, dst, EdgeOp("Deref", ""))
                [] place_elem.k = "Field" ->
                     add_node_edge(g1, src, dst, EdgeOp("Field", place_elem.name))
                [] place_elem.k = "Downcast" ->
                     IF place_elem.name = "None"
                     THEN Unwind(g1)
                     ELSE add_node_edge(g1, src, dst, EdgeOp("Downcast", place_elem.name))
                [] place_elem.k = "Index" ->
                     add_node_edge(add_node_edge(g1, src, dst, EdgeOp("Index", "")),
                                   place_elem.idx, dst, EdgeOp("Index", ""))
                [] place_elem.k = "ConstantIndex" ->
                     add_node_edge(g1, src, dst, EdgeOp("ConstIndex", ""))
                [] place_elem.k = "Subslice" ->
                     add_node_edge(g1, src, dst, EdgeOp("SubSlice", ""))
                [] OTHER -> Unwind(g1)
    IN [g |-> g2, ret |-> dst]

RECURSIVE parse_steps(_, _, _, _)
\* the for loop of parse_place, from projection[i] on
parse_steps(g, ret, projection, i) ==
    IF g.panic \/ i > Len(projection)
    THEN [g |-> g, ret |-> ret]
    ELSE LET r == parse_one_step(g, ret, projection[i])
         IN parse_steps(r.g, r.ret, projection, i + 1)

\* parse_place returning the base slot of the place
parse_place_base(g, place) ==
    IF g.panic THEN [g |-> g, ret |-> place.local]
    ELSE [g |-> parse_steps(g, place.local, place.projection, 1).g, ret |-> place.local]

parse_place(g, place) ==
    IF g.panic THEN [g |-> g, ret |-> place.local]
    ELSE parse_steps(g, place.local, place.projection, 1)

-----------------------------------------------------------------------------
(* add_operand *)

add_operand(g, operand, dst) ==
    IF g.panic THEN g
    ELSE CASE operand.k = "Copy" ->
                LET r == parse_place(g, operand.place)
                IN add_node_edge(r.g, r.ret, dst, EdgeOp("Copy", ""))
           [] operand.k = "Move" ->
                LET r == parse_place(g, operand.place)
                IN add_node_edge(r.g, r.ret, dst, EdgeOp("Move", ""))
           [] operand.k = "Constant" ->
                add_const_edge(g, operand.text, dst, EdgeOp("Const", ""))

RECURSIVE add_operands_reversed(_, _, _, _)
\* add_operands taking the operands last to first
add_operands_reversed(g, ops, dst, i) ==
    IF g.panic \/ i > Len(ops) THEN g
    ELSE add_operands_reversed(add_operand(g, ops[Len(ops) + 1 - i], dst), ops, dst, i + 1)

RECURSIVE add_operands(_, _, _, _)
\* for op in operands.iter() { self.add_operand(op, dst) }, from ops[i] on
add_operands(g, ops, dst, i) ==
    IF g.panic \/ i > Len(ops) THEN g
    ELSE add_operands(add_operand(g, ops[i], dst), ops, dst, i + 1)

-----------------------------------------------------------------------------
(* add_statm_to_graph *)

\* the match on the rvalue, lines 190..272
statm_rvalue(g, rvalue, dst) ==
    CASE rvalue.k = "Use" ->
           SetNodeOp(add_operand(g, rvalue.ops[1], dst), dst, NodeOp("Use", ""))
      [] rvalue.k = "Repeat" ->
           SetNodeOp(add_operand(g, rvalue.ops[1], dst), dst, NodeOp("Repeat", ""))
      [] rvalue.k = "Ref" ->
           LET op == CASE rvalue.bk = "Shared" -> EdgeOp("Immut", "")
                       [] rvalue.bk = "Mut" -> EdgeOp("Mut", "")
                       [] rvalue.bk = "Fake" -> EdgeOp("Nop", "")
               r == parse_place(g, rvalue.place)
           IN SetNodeOp(add_node_edge(r.g, r.ret, dst, op), dst, NodeOp("Ref", ""))
      [] rvalue.k = "Len" ->
           LET r == parse_place(g, rvalue.place)
           IN SetNodeOp(add_node_edge(r.g, r.ret, dst, EdgeOp("Nop", "")),
                        dst, NodeOp("Len", ""))
      [] rvalue.k = "Cast" ->
           SetNodeOp(add_operand(g, rvalue.ops[1], dst), dst, NodeOp("Cast", ""))
      [] rvalue.k = "BinaryOp" ->
           SetNodeOp(add_operand(add_operand(g, rvalue.ops[1], dst), rvalue.ops[2], dst),
                     dst, NodeOp("CheckedBinaryOp", ""))
      [] rvalue.k = "Aggregate" ->
           LET g1 == add_operands(g, rvalue.ops, dst, 1)
           IN IF rvalue.agg \in {"Array", "Tuple", "Adt", "Closure"}
              THEN SetNodeOp(g1, dst, NodeOp("Aggregate", rvalue.agg))
              ELSE IF g1.panic THEN g1 ELSE Unwind(g1)
      [] rvalue.k = "UnaryOp" ->
           SetNodeOp(add_operand(g, rvalue.ops[1], dst), dst, NodeOp("UnaryOp", ""))
      [] rvalue.k = "NullaryOp" ->
           SetNodeOp(add_const_edge(g, "ty", dst, EdgeOp("Nop", "")),
                     dst, NodeOp("NullaryOp", ""))
      [] rvalue.k = "ThreadLocalRef" -> Unwind(g)
      [] rvalue.k = "Discriminant" ->
           LET r == parse_place(g, rvalue.place)
           IN SetNodeOp(add_node_edge(r.g, r.ret, dst, EdgeOp("Nop", "")),
                        dst, NodeOp("Discriminant", ""))
      [] rvalue.k = "ShallowInitBox" ->
           SetNodeOp(add_operand(g, rvalue.ops[1], dst), dst, NodeOp("ShallowInitBox", ""))
      [] rvalue.k = "CopyForDeref" ->
           LET r == parse_place(g, rvalue.place)
           IN SetNodeOp(add_node_edge(r.g, r.ret, dst, EdgeOp("Nop", "")),
                        dst, NodeOp("CopyForDeref", ""))
      [] rvalue.k = "RawPtr" -> Unwind(g)

\* the Local the assignment writes: parse_place of the assigned place
statm_dst(g, statement) == parse_place(g, statement.place).ret

add_statm_to_graph(g, statement) ==
    IF statement.kind # "Assign" THEN g
    ELSE LET r == parse_place(g, statement.place)
             dst == r.ret
             g1 == SetNodeSpan(r.g, dst, statement.span)
             g2 == IF g1.panic THEN g1 ELSE statm_rvalue(g1, statement.rvalue, dst)
         IN IncNodeSeq(g2, dst)

-----------------------------------------------------------------------------
(* add_terminator_to_graph *)

\* the match on the call target, lines 286..310
terminator_func(g, func, args, dst) ==
    CASE func.k = "Constant" ->
           IF func.cst = "FnDef"
           THEN SetNodeOp(add_operands(g, args, dst, 1), dst, NodeOp("Call", func.text))
           ELSE g
      [] func.k = "Move" ->
           SetNodeOp(add_operands(add_operand(g, func, dst), args, dst, 1),
                     dst, NodeOp("CallOperand", ""))
      [] OTHER -> Unwind(g)

add_terminator_to_graph(g, terminator) ==
    IF terminator.kind # "Call" THEN g
    ELSE LET dst == terminator.place.local
             g1 == terminator_func(g, terminator.func, terminator.args, dst)
             g2 == SetNodeSpan(g1, dst, terminator.span)
         IN IncNodeSeq(g2, dst)

-----------------------------------------------------------------------------
(* dfs and its predicates *)

\* The closures dfs is called with, as data: kind names the closure, target is
\* the idx_2 that is_connected's node_operator captures. What a closure
\* captures mutably travels in st: find (the Cell of is_connected), root and
\* set (collect_equivalent_locals). st.overflow is the recursion that never
\* returns: dfs keeps no visited set, so a cycle it enters under predicates
\* that admit it again exhausts the stack.
Closure(kind, target) == [kind |-> kind, target |-> target]

DfsState(local) ==
    [find |-> FALSE, root |-> local, set |-> {}, overflow |-> FALSE, trace |-> <<>>]

\* history of one search: st.trace lists, in order, every invocation of the
\* node operator (kind "node") and of the edge validator (kind "edge") with
\* the node or edge it was invoked on and the DFSStatus it returned
Traced(st, kind, id, status) ==
    [st EXCEPT !.trace = Append(@, [kind |-> kind, id |-> id, status |-> status])]

EquivalentNodeOps == {"Nop", "Use", "Ref"}

\* find_root_operator recording the node before it looks at its tag
find_root_operator_any_tag(g, idx, st) ==
    IF g.nodes[idx + 1].op.tag \in EquivalentNodeOps
    THEN [status |-> "Continue", st |-> [st EXCEPT !.root = idx]]
    ELSE [status |-> "Stop", st |-> [st EXCEPT !.root = idx]]

find_root_operator(g, idx, st) ==
    IF g.nodes[idx + 1].op.tag \in EquivalentNodeOps
    THEN [status |-> "Continue", st |-> [st EXCEPT !.root = idx]]
    ELSE [status |-> "Stop", st |-> st]

\* find_equivalent_operator inserting the node before it looks at its tag
find_equivalent_operator_any_tag(g, idx, st) ==
    IF idx \in st.set
    THEN [status |-> "Stop", st |-> st]
    ELSE IF g.nodes[idx + 1].op.tag \in EquivalentNodeOps
         THEN [status |-> "Continue", st |-> [st EXCEPT !.set = @ \cup {idx}]]
         ELSE [status |-> "Stop", st |-> [st EXCEPT !.set = @ \cup {idx}]]

find_equivalent_operator(g, idx, st) ==
    IF idx \in st.set
    THEN [status |-> "Stop", st |-> st]
    ELSE IF g.nodes[idx + 1].op.tag \in EquivalentNodeOps
         THEN [status |-> "Continue", st |-> [st EXCEPT !.set = @ \cup {idx}]]
         ELSE [status |-> "Stop", st |-> st]

is_connected_operator(target, idx, st) ==
    LET st1 == [st EXCEPT !.find = (idx = target)]
    IN [status |-> IF st1.find THEN "Stop" ELSE "Continue", st |-> st1]

node_operator(f, g, idx, st) ==
    CASE f.kind = "find_root" -> find_root_operator(g, idx, st)
      [] f.kind = "find_equivalent" -> find_equivalent_operator(g, idx, st)
      [] f.kind = "is_connected" -> is_connected_operator(f.target, idx, st)

\* equivalent_edge_validator with the Move arm left out
equivalent_edge_validator_no_move(g, idx) ==
    IF g.edges[idx + 1].op.tag \in {"Copy", "Mut", "Immut"}
    THEN "Continue"
    ELSE "Stop"

equivalent_edge_validator(g, idx) ==
    IF g.edges[idx + 1].op.tag \in {"Copy", "Move", "Mut", "Immut"}
    THEN "Continue"
    ELSE "Stop"

always_true_edge_validator(g, idx) == "Continue"

edge_validator(v, g, idx) ==
    CASE v = "equivalent" -> equivalent_edge_validator(g, idx)
      [] v = "always_true" -> always_true_edge_validator(g, idx)

\* The deepest recursion a search that returns can reach: under predicates
\* that do not read st a deeper call has a node twice on its stack, both times
\* admitted, and repeats for ever; find_equivalent_operator stops at a node it
\* meets again, so it never gets deeper.
DepthOfReturn(g) == Len(g.nodes) + 1

RECURSIVE dfs(_, _, _, _, _, _, _, _)
RECURSIVE traverse(_, _, _, _, _, _, _, _, _, _)
RECURSIVE traverse_no_halt(_, _, _, _, _, _, _, _, _, _)
RECURSIVE traverse_first_stop(_, _, _, _, _, _, _, _, _, _)

\* traverse! returning at the first Stop whatever traverse_all says
traverse_first_stop(g, edge_list, i, field, direction, f, v, traverse_all, st, depth) ==
    IF st.overflow \/ i > Len(edge_list)
    THEN [returned |-> FALSE, st |-> st]
    ELSE LET edge_idx == edge_list[i]
             edge == g.edges[edge_idx + 1]
             next == IF field = "src" THEN edge.src ELSE edge.dst
             ev == edge_validator(v, g, edge_idx)
             st1 == Traced(st, "edge", edge_idx, ev)
         IN IF ev = "Continue"
            THEN LET r == dfs(g, next, direction, f, v, traverse_all, st1, depth + 1)
                 IN IF r.st.overflow
                    THEN [returned |-> FALSE, st |-> r.st]
                    ELSE IF r.status = "Stop"
                         THEN [returned |-> TRUE, st |-> r.st]
                         ELSE traverse_first_stop(g, edge_list, i + 1, field, direction, f, v,
                                                  traverse_all, r.st, depth)
            ELSE traverse_first_stop(g, edge_list, i + 1, field, direction, f, v,
                                     traverse_all, st1, depth)

\* traverse! without the return: a Stop from a recursive call is ignored
traverse_no_halt(g, edge_list, i, field, direction, f, v, traverse_all, st, depth) ==
    IF st.overflow \/ i > Len(edge_list)
    THEN [returned |-> FALSE, st |-> st]
    ELSE LET edge_idx == edge_list[i]
             edge == g.edges[edge_idx + 1]
             next == IF field = "src" THEN edge.src ELSE edge.dst
             ev == edge_validator(v, g, edge_idx)
             st1 == Traced(st, "edge", edge_idx, ev)
         IN IF ev = "Continue"
            THEN LET r == dfs(g, next, direction, f, v, traverse_all, st1, depth + 1)
                 IN IF r.st.overflow
                    THEN [returned |-> FALSE, st |-> r.st]
                    ELSE traverse_no_halt(g, edge_list, i + 1, field, direction, f, v,
                                          traverse_all, r.st, depth)
            ELSE traverse_no_halt(g, edge_list, i + 1, field, direction, f, v,
                                  traverse_all, st1, depth)

\* the macro traverse!: the loop over edge_list from its i-th edge on; field is
\* "src" or "dst". returned is TRUE when the loop left dfs by return Stop.
traverse(g, edge_list, i, field, direction, f, v, traverse_all, st, depth) ==
    IF st.overflow \/ i > Len(edge_list)
    THEN [returned |-> FALSE, st |-> st]
    ELSE LET edge_idx == edge_list[i]
             edge == g.edges[edge_idx + 1]
             next == IF field = "src" THEN edge.src ELSE edge.dst
             ev == edge_validator(v, g, edge_idx)
             st1 == Traced(st, "edge", edge_idx, ev)
         IN IF ev = "Continue"
            THEN LET r == dfs(g, next, direction, f, v, traverse_all, st1, depth + 1)
                 IN IF r.st.overflow
                    THEN [returned |-> FALSE, st |-> r.st]
                    ELSE IF r.status = "Stop" /\ ~traverse_all
                         THEN [returned |-> TRUE, st |-> r.st]
                         ELSE traverse(g, edge_list, i + 1, field, direction, f, v,
                                       traverse_all, r.st, depth)
            ELSE traverse(g, edge_list, i + 1, field, direction, f, v,
                          traverse_all, st1, depth)

dfs(g, now, direction, f, v, traverse_all, st, depth) ==
    IF depth > DepthOfReturn(g)
    THEN [status |-> "Stop", st |-> [st EXCEPT !.overflow = TRUE]]
    ELSE LET n == node_operator(f, g, now, st)
             nst == Traced(n.st, "node", now, n.status)
             node == g.nodes[now + 1]
         IN IF n.status = "Continue"
            THEN LET up == IF direction \in {"Upside", "Both"}
                           THEN traverse(g, node.in_edges, 1, "src", direction, f, v,
                                         traverse_all, nst, depth)
                           ELSE [returned |-> FALSE, st |-> nst]
                     down == IF direction \in {"Downside", "Both"} /\ ~up.returned
                             THEN traverse(g, node.out_edges, 1, "dst", direction, f, v,
                                           traverse_all, up.st, depth)
                             ELSE up
                 IN [status |-> IF down.returned THEN "Stop" ELSE "Continue",
                     st |-> down.st]
            ELSE [status |-> "Stop", st |-> nst]

-----------------------------------------------------------------------------
(* The queries. Each yields overflow (TRUE when the call exhausts the stack *)
(* and yields nothing) and value (what it returns otherwise).               *)

\* the upside search of collect_equivalent_locals: it leaves the root in st
find_root(g, local) ==
    dfs(g, local, "Upside", Closure("find_root", 0), "equivalent", TRUE,
        DfsState(local), 1).st

collect_equivalent_locals(g, local) ==
    LET up == find_root(g, local)
        down == dfs(g, up.root, "Downside", Closure("find_equivalent", 0),
                    "equivalent", TRUE, up, 1).st
    IN IF up.overflow
       THEN [overflow |-> TRUE, value |-> {}]
       ELSE [overflow |-> down.overflow, value |-> down.set]

\* is_connected searching both directions in one dfs
is_connected_both(g, idx_1, idx_2) ==
    LET f == Closure("is_connected", idx_2)
        both == dfs(g, idx_1, "Both", f, "always_true", FALSE, DfsState(idx_1), 1).st
    IN [overflow |-> both.overflow, value |-> ~both.overflow /\ both.find]

is_connected(g, idx_1, idx_2) ==
    LET f == Closure("is_connected", idx_2)
        down == dfs(g, idx_1, "Downside", f, "always_true", FALSE, DfsState(idx_1), 1).st
        up == IF down.overflow \/ down.find
              THEN down
              ELSE dfs(g, idx_1, "Upside", f, "always_true", FALSE, down, 1).st
    IN [overflow |-> up.overflow, value |-> ~up.overflow /\ up.find]

RECURSIVE deps_from(_, _)
\* (i..self.argc + 1).map(|i| self.is_connected(_i, _0)).collect()
deps_from(g, i) ==
    IF i > g.argc
    THEN [overflow |-> FALSE, value |-> <<>>]
    ELSE LET c == is_connected(g, i, 0)
             rest == deps_from(g, i + 1)
         IN IF c.overflow \/ rest.overflow
            THEN [overflow |-> TRUE, value |-> <<>>]
            ELSE [overflow |-> FALSE, value |-> <<c.value>> \o rest.value]

\* param_return_deps over the parameters only, the return slot left out
param_return_deps_from_1(g) == deps_from(g, 1)

param_return_deps(g) == deps_from(g, 0)

get_upside_idx(g, node_idx, order) ==
    LET in_edges == g.nodes[node_idx + 1].in_edges
    IN IF order < Len(in_edges)
       THEN [some |-> TRUE, local |-> g.edges[in_edges[order + 1] + 1].src]
       ELSE [some |-> FALSE, local |-> 0]

\* get_downside_idx answering with the near end of the edge
get_downside_idx_src(g, node_idx, order) ==
    LET out_edges == g.nodes[node_idx + 1].out_edges
    IN IF order < Len(out_edges)
       THEN [some |-> TRUE, local |-> g.edges[out_edges[order + 1] + 1].src]
       ELSE [some |-> FALSE, local |-> 0]

get_downside_idx(g, node_idx, order) ==
    LET out_edges == g.nodes[node_idx + 1].out_edges
    IN IF order < Len(out_edges)
       THEN [some |-> TRUE, local |-> g.edges[out_edges[order + 1] + 1].dst]
       ELSE [some |-> FALSE, local |-> 0]

-----------------------------------------------------------------------------
(* The instructions the model feeds the builder *)

Locals == 0..(graph.n_locals - 1)

\* the next slot, cyclically: a second slot that differs from l
Nx(l) == (l + 1) % graph.n_locals

Plain(l) == Place(l, <<>>)

Copy(place) == Operand("Copy", place, "", "")

Move(place) == Operand("Move", place, "", "")

\* a constant operand; cst is the constant's shape as a call target reads it:
\* "FnDef" (Const::Val of a function type), "Val" (Const::Val of another
\* type), "Unevaluated" (not Const::Val)
Constant(text, cst) == Operand("Constant", NoPlace, text, cst)

Assign(place, rvalue) ==
    Instr("statement", "Assign", place, rvalue, NoOperand, <<>>, DUMMY_SP)

Call(func, args, destination) ==
    Instr("terminator", "Call", destination, NoRvalue, func, args, DUMMY_SP)

OperandRvalues == {"Use", "Repeat", "Cast", "UnaryOp", "ShallowInitBox"}

PlaceRvalues == {"Len", "Discriminant", "CopyForDeref"}

BorrowKinds == {"Shared", "Mut", "Fake"}

AggregateKinds == {"Array", "Tuple", "Adt", "Closure", "Coroutine"}

RvOperand(k, op) == Rvalue(k, <<op>>, NoPlace, "", "")

RvPlace(k, place) == Rvalue(k, <<>>, place, "", "")

RvRef(bk, place) == Rvalue("Ref", <<>>, place, bk, "")

RvBinaryOp(a, b) == Rvalue("BinaryOp", <<a, b>>, NoPlace, "", "")

RvAggregate(agg, ops) == Rvalue("Aggregate", ops, NoPlace, "", agg)

RvNone(k) == Rvalue(k, <<>>, NoPlace, "", "")

\* the projection steps of PlaceElem; "OpaqueCast" stands for the kinds
\* parse_one_step has no arm for
ProjectionElems ==
    {PlaceElem("Deref", 0, ""), PlaceElem("Field", 0, "0"),
     PlaceElem("Downcast", 0, "V"), PlaceElem("Downcast", 0, "None"),
     PlaceElem("ConstantIndex", 0, ""), PlaceElem("Subslice", 0, ""),
     PlaceElem("OpaqueCast", 0, "")}
    \cup {PlaceElem("Index", i, "") : i \in Locals}

\* Statements of the sequences Spec explores: every rvalue kind, every slot
\* as a destination, both operand kinds, constants, self-assignments,
\* projections on either side.
Statements ==
    {Assign(Plain(d), RvOperand("Use", Copy(Plain(l)))) : d \in Locals, l \in Locals}
    \cup {Assign(Plain(d), RvOperand("Use", Move(Plain(Nx(d))))) : d \in Locals}
    \cup {Assign(Plain(d), RvOperand("Use", Constant("c", "Val"))) : d \in Locals}
    \cup {Assign(Plain(d), RvOperand(k, Copy(Plain(Nx(d))))) :
            d \in {0}, k \in OperandRvalues \ {"Use"}}
    \cup {Assign(Plain(d), RvPlace(k, Plain(Nx(d)))) : d \in {1}, k \in PlaceRvalues}
    \cup {Assign(Plain(d), RvRef(bk, Plain(Nx(d)))) : d \in Locals, bk \in {"Shared"}}
    \cup {Assign(Plain(d), RvRef(bk, Plain(Nx(d)))) : d \in {0}, bk \in {"Mut", "Fake"}}
    \cup {Assign(Plain(d), RvBinaryOp(Copy(Plain(d)), Constant("c", "Val"))) : d \in {1}}
    \cup {Assign(Plain(d), RvBinaryOp(Copy(Plain(Nx(d))), Move(Plain(Nx(Nx(d)))))) :
            d \in {0}}
    \cup {Assign(Plain(0), RvAggregate(agg, <<Move(Plain(Nx(0))), Constant("c", "Val")>>)) :
            agg \in AggregateKinds}
    \cup {Assign(Plain(0), RvNone(k)) : k \in {"NullaryOp", "ThreadLocalRef", "RawPtr"}}
    \cup {Assign(Place(Nx(0), <<e>>), RvOperand("Use", Copy(Plain(0)))) :
            e \in {PlaceElem("Deref", 0, ""), PlaceElem("OpaqueCast", 0, "")}}
    \cup {Assign(Plain(0), RvOperand("Use", Copy(Place(Nx(0), <<e>>)))) :
            e \in {PlaceElem("Field", 0, "0"), PlaceElem("Index", 0, "")}}
    \cup {Instr("statement", "StorageLive", Plain(0), NoRvalue, NoOperand, <<>>, DUMMY_SP)}

\* Terminators of the sequences Spec explores: each call-target shape, with
\* and without arguments, and a terminator that is no call.
Terminators ==
    {Call(Constant("f", "FnDef"), args, Plain(d)) :
        args \in {<<>>, <<Copy(Plain(Nx(0)))>>}, d \in {0, Nx(0)}}
    \cup {Call(Move(Plain(Nx(Nx(d)))), <<>>, Plain(d)) : d \in {0, Nx(0)}}
    \cup {Call(Move(Plain(Nx(Nx(d)))), <<Copy(Plain(Nx(d)))>>, Plain(d)) : d \in {0, Nx(0)}}
    \cup {Call(f, <<Copy(Plain(Nx(0)))>>, Plain(0)) :
            f \in {Constant("c", "Val"), Constant("c", "Unevaluated"), Copy(Plain(Nx(0)))}}
    \cup {Instr("terminator", "Return", Plain(0), NoRvalue, NoOperand, <<>>, DUMMY_SP)}

-----------------------------------------------------------------------------
(* The builder as a state machine *)

\* the instruction as the builder sees it: the k-th instruction of the body
\* carries the k-th source location
At(instr) == [instr EXCEPT !.span = Len(prog) + 1]

\* history of one step: the instruction, the graph it found, and the batch of
\* every edge it pushed
Record(instr) ==
    /\ prog' = Append(prog, At(instr))
    /\ before' = graph
    /\ batch' = batch \o [i \in 1..(Len(graph'.edges) - Len(graph.edges)) |->
                            Len(prog) + 1]

Init ==
    /\ \E n \in {3} : \E a \in 0..(n - 1) : graph = Graph_new(a, n)
    /\ prog = <<>>
    /\ batch = <<>>
    /\ before = graph

AddStatm ==
    /\ ~graph.panic
    /\ Len(prog) < MaxInstr
    /\ \E statement \in Statements :
          /\ graph' = add_statm_to_graph(graph, At(statement))
          /\ Record(statement)

AddTerminator ==
    /\ ~graph.panic
    /\ Len(prog) < MaxInstr
    /\ \E terminator \in Terminators :
          /\ graph' = add_terminator_to_graph(graph, At(terminator))
          /\ Record(terminator)

Next == AddStatm \/ AddTerminator

RECURSIVE build_from(_, _, _)
\* the loops of build_graph over the instructions of the body, from instrs[i] on
build_from(g, instrs, i) ==
    IF i > Len(instrs) THEN g
    ELSE build_from(IF instrs[i].io = "statement"
                    THEN add_statm_to_graph(g, instrs[i])
                    ELSE add_terminator_to_graph(g, instrs[i]),
                    instrs, i + 1)

\* one whole build: Graph::new, then every statement and terminator in order
build_graph(a, n, instrs) == build_from(Graph_new(a, n), instrs, 1)

Spec == Init /\ [][Next]_vars

-----------------------------------------------------------------------------------------------------------------------------------------------------
(* One instruction on a fresh graph, drawn from a wide set: every rvalue   *)
(* kind over every choice of plain operands, every place of up to MaxProj  *)
(* projection steps as the destination and as the operand of an            *)
(* assignment, every call-target shape with every argument list of up to   *)
(* MaxOperands operands.                                                   *)

PlainOperands ==
    {Copy(Plain(l)) : l \in Locals} \cup {Move(Plain(l)) : l \in Locals}
    \cup {Constant("c", "Val")}

\* the operands of an operand list: both kinds, a slot used twice, a constant
ListOperands ==
    {Copy(Plain(0)), Copy(Plain(Nx(0))), Move(Plain(Nx(0))), Move(Plain(Nx(Nx(0)))),
     Constant("c", "Val")}

OperandLists == UNION {[1..k -> ListOperands] : k \in 0..MaxOperands}

Projections == UNION {[1..k -> ProjectionElems] : k \in 1..MaxProj}

ProjectedPlaces == {Place(Nx(0), p) : p \in Projections}

StatementsOne ==
    {Assign(Plain(d), RvOperand(k, op)) :
        d \in Locals, k \in OperandRvalues, op \in PlainOperands}
    \cup {Assign(Plain(d), RvPlace(k, Plain(l))) :
            d \in Locals, k \in PlaceRvalues, l \in Locals}
    \cup {Assign(Plain(d), RvRef(bk, Plain(l))) :
            d \in Locals, bk \in BorrowKinds, l \in Locals}
    \cup {Assign(Plain(d), RvBinaryOp(a, b)) :
            d \in Locals, a \in PlainOperands, b \in PlainOperands}
    \cup {Assign(Plain(d), RvAggregate(agg, ops)) :
            d \in Locals, agg \in AggregateKinds, ops \in OperandLists}
    \cup {Assign(Plain(d), RvNone(k)) :
            d \in Locals, k \in {"NullaryOp", "ThreadLocalRef", "RawPtr"}}
    \cup {Assign(place, RvOperand("Use", Copy(Plain(0)))) : place \in ProjectedPlaces}
    \cup {Assign(Plain(0), RvOperand("Use", Move(place))) : place \in ProjectedPlaces}
    \cup {Instr("statement", "StorageLive", Plain(0), NoRvalue, NoOperand, <<>>, DUMMY_SP)}

CallTargets ==
    {Constant("f", cst) : cst \in {"FnDef", "Val", "Unevaluated"}}
    \cup {Move(Plain(l)) : l \in Locals} \cup {Copy(Plain(l)) : l \in Locals}
    \cup {Move(Place(0, <<PlaceElem("Field", 0, "0")>>))}

TerminatorsOne ==
    {Call(f, args, Plain(d)) : f \in CallTargets, args \in OperandLists, d \in Locals}
    \cup {Instr("terminator", "Return", Plain(0), NoRvalue, NoOperand, <<>>, DUMMY_SP)}

AddStatmOne ==
    /\ prog = <<>>
    /\ \E statement \in StatementsOne :
          /\ graph' = add_statm_to_graph(graph, At(statement))
          /\ Record(statement)

AddTerminatorOne ==
    /\ prog = <<>>
    /\ \E terminator \in TerminatorsOne :
          /\ graph' = add_terminator_to_graph(graph, At(terminator))
          /\ Record(terminator)

NextOne == AddStatmOne \/ AddTerminatorOne

SpecOne == Init /\ [][NextOne]_vars

-----------------------------------------------------------------------------
(* Bodies for the queries: up to MaxInstr instructions drawn from the      *)
(* shapes that decide what a search meets: copies and moves between every  *)
(* two slots (a slot written twice, cycles and self-loops among them),     *)
(* references, tags and edges the equivalence predicates stop at, two      *)
(* operands into one slot, constant and projection nodes, calls.           *)

StatementsQuery ==
    {Assign(Plain(d), RvOperand("Use", Copy(Plain(l)))) : d \in Locals, l \in Locals}
    \cup {Assign(Plain(0), RvOperand("Use", Move(Plain(Nx(0))))),
          Assign(Plain(0), RvRef("Shared", Plain(Nx(0)))),
          Assign(Plain(Nx(Nx(0))), RvRef("Mut", Plain(Nx(0)))),
          Assign(Plain(Nx(0)), RvOperand("Repeat", Copy(Plain(Nx(Nx(0)))))),
          Assign(Plain(Nx(Nx(0))), RvPlace("Len", Plain(Nx(0)))),
          Assign(Plain(0), RvBinaryOp(Copy(Plain(Nx(0))), Copy(Plain(Nx(Nx(0)))))),
          Assign(Plain(Nx(0)), RvOperand("Use", Constant("c", "Val"))),
          Assign(Plain(0), RvOperand("Use", Copy(Place(Nx(0), <<PlaceElem("Field", 0, "0")>>)))),
          Assign(Plain(0),
                 RvOperand("Use", Copy(Place(Nx(0), <<PlaceElem("Index", Nx(Nx(0)), "")>>))))}

TerminatorsQuery ==
    {Call(Constant("f", "FnDef"), <<Copy(Plain(Nx(0))), Copy(Plain(Nx(Nx(0))))>>, Plain(0)),
     Call(Move(Plain(Nx(Nx(0)))), <<Copy(Plain(Nx(0)))>>, Plain(0))}

AddStatmQuery ==
    /\ ~graph.panic
    /\ Len(prog) < MaxInstr
    /\ \E statement \in StatementsQuery :
          /\ graph' = add_statm_to_graph(graph, At(statement))
          /\ Record(statement)

AddTerminatorQuery ==
    /\ ~graph.panic
    /\ Len(prog) < MaxInstr
    /\ \E terminator \in TerminatorsQuery :
          /\ graph' = add_terminator_to_graph(graph, At(terminator))
          /\ Record(terminator)

NextQuery == AddStatmQuery \/ AddTerminatorQuery

SpecQuery == Init /\ [][NextQuery]_vars

-----------------------------------------------------------------------------
(* Vocabulary of the properties *)

NodeIds(g) == 0..(Len(g.nodes) - 1)

EdgeIds(g) == 0..(Len(g.edges) - 1)

Edge(g, e) == g.edges[e + 1]

Node(g, n) == g.nodes[n + 1]

Range(s) == {s[i] : i \in 1..Len(s)}

NoDuplicate(s) == \A i, j \in 1..Len(s) : s[i] = s[j] => i = j

\* the last instruction processed, and whether it ran to its end
Last == prog[Len(prog)]

Completed == Len(prog) > 0 /\ ~graph.panic

\* the node the last instruction wrote
LastDst ==
    IF Last.io = "statement" THEN statm_dst(before, Last) ELSE Last.place.local

\* its seq as the instruction found it (a node the instruction made starts at 0)
SeqBefore == IF LastDst < Len(before.nodes) THEN Node(before, LastDst).seq ELSE 0

\* the edges the last instruction pushed
NewEdges == {e \in EdgeIds(graph) : e >= Len(before.edges)}

NewEdgesInto(n) == {e \in NewEdges : Edge(graph, e).dst = n}

IsPlainCopyOrMove(operand) ==
    operand.k \in {"Copy", "Move"} /\ operand.place.projection = <<>>

RECURSIVE Reach(_, _, _)
\* the nodes a path of edges of g.edges leads to from S, followed src-to-dst
\* (to = "dst") or dst-to-src (to = "src"), the empty path included
Reach(g, S, to) ==
    LET step == {IF to = "dst" THEN Edge(g, e).dst ELSE Edge(g, e).src :
                    e \in {x \in EdgeIds(g) :
                             (IF to = "dst" THEN Edge(g, x).src ELSE Edge(g, x).dst) \in S}}
    IN IF step \subseteq S THEN S ELSE Reach(g, S \cup step, to)

-----------------------------------------------------------------------------
(* C1 *)

\* C1: in every reachable graph, every node's in_edges is exactly the set of
\* edge ids whose dst is the node and its out_edges exactly the set of edge
\* ids whose src is the node (original slots, projection nodes and constant
\* nodes alike).
C1_EdgeListsExact ==
    \A n \in NodeIds(graph) :
        /\ Range(Node(graph, n).in_edges) = {e \in EdgeIds(graph) : Edge(graph, e).dst = n}
        /\ Range(Node(graph, n).out_edges) = {e \in EdgeIds(graph) : Edge(graph, e).src = n}
        /\ NoDuplicate(Node(graph, n).in_edges)
        /\ NoDuplicate(Node(graph, n).out_edges)

-----------------------------------------------------------------------------
(* C2 *)

\* C2: in every reachable graph, the src and the dst of every edge are indices
\* of nodes of the graph's node collection.
C2_EdgeEndsValid ==
    \A e \in EdgeIds(graph) :
        Edge(graph, e).src \in NodeIds(graph) /\ Edge(graph, e).dst \in NodeIds(graph)

\* edges from a constant node and from a projection node, and an edge into a
\* projection node
C2_Witness ==
    /\ \E e \in EdgeIds(graph) :
          /\ Edge(graph, e).src >= graph.n_locals
          /\ Node(graph, Edge(graph, e).src).op.tag = "Const"
    /\ \E e \in EdgeIds(graph) :
          /\ Edge(graph, e).src >= graph.n_locals
          /\ Node(graph, Edge(graph, e).src).op.tag = "Nop"
    /\ \E e \in EdgeIds(graph) : Edge(graph, e).dst >= graph.n_locals

-----------------------------------------------------------------------------
(* C3 *)

\* C3: when an assignment or a call terminator has been processed, every edge
\* it pushed into its resolved destination carries the seq the destination had
\* before the instruction, and the destination's seq is that seq plus one.
C3_BatchSeq ==
    (Completed /\ Last.kind \in {"Assign", "Call"}) =>
        /\ \A e \in NewEdgesInto(LastDst) : Edge(graph, e).seq = SeqBefore
        /\ Node(graph, LastDst).seq = SeqBefore + 1

\* a second write to a slot, by an instruction that pushed two edges into it
\* from slots whose own seq differs
C3_Witness ==
    /\ Completed
    /\ Last.kind \in {"Assign", "Call"}
    /\ SeqBefore = 1
    /\ Cardinality(NewEdgesInto(LastDst)) = 2
    /\ \E e \in NewEdgesInto(LastDst) : Node(graph, Edge(graph, e).src).seq # SeqBefore

-----------------------------------------------------------------------------
(* C4 *)

\* C4: no instruction lowers the seq of a node, and any two edges of a
\* reachable graph with the same dst and the same seq were pushed by one and
\* the same statement or terminator.
C4_SeqMonotoneBatches ==
    /\ \A n \in NodeIds(before) : Node(graph, n).seq >= Node(before, n).seq
    /\ \A e1, e2 \in EdgeIds(graph) :
          (Edge(graph, e1).dst = Edge(graph, e2).dst
             /\ Edge(graph, e1).seq = Edge(graph, e2).seq)
          => batch[e1 + 1] = batch[e2 + 1]

\* a slot written by two instructions: its edges of the first write and of
\* the second differ in seq, and the second write pushed two edges of one seq
C4_Witness ==
    \E e1, e2, e3 \in EdgeIds(graph) :
        /\ Edge(graph, e1).dst = Edge(graph, e2).dst
        /\ Edge(graph, e2).dst = Edge(graph, e3).dst
        /\ batch[e1 + 1] # batch[e2 + 1]
        /\ Edge(graph, e1).seq # Edge(graph, e2).seq
        /\ e2 # e3
        /\ batch[e2 + 1] = batch[e3 + 1]
        /\ Edge(graph, e2).seq = Edge(graph, e3).seq

-----------------------------------------------------------------------------
(* C5 *)

\* C5: on every graph the builder has finished, is_connected(a, b), where it
\* returns, returns true exactly when b is reachable from a by a path of edges
\* of the edge collection followed src-to-dst or by a path followed dst-to-src
\* (the empty path when a = b), and false otherwise.
C5_IsConnectedIsReachability ==
    ~graph.panic =>
        \A a, b \in NodeIds(graph) :
            LET r == is_connected(graph, a, b)
            IN ~r.overflow =>
                 (r.value <=> (b \in Reach(graph, {a}, "dst") \/ b \in Reach(graph, {a}, "src")))

-----------------------------------------------------------------------------
(* C6 *)

\* C6: on every graph the builder has finished and for every slot s, whatever
\* its tag, the set collect_equivalent_locals(s) returns is non-empty and
\* contains the root its upside search determines.
C6_AlwaysContainsRoot ==
    ~graph.panic =>
        \A s \in Locals :
            LET r == collect_equivalent_locals(graph, s)
            IN ~r.overflow => (r.value # {} /\ find_root(graph, s).root \in r.value)

\* the edges the upside search of collect_equivalent_locals follows: admitted
\* by the edge validator, between two nodes the node operator continues at
RootEdges(g) ==
    {e \in EdgeIds(g) :
        /\ Edge(g, e).op.tag \in {"Copy", "Move", "Mut", "Immut"}
        /\ Node(g, Edge(g, e).src).op.tag \in EquivalentNodeOps
        /\ Node(g, Edge(g, e).dst).op.tag \in EquivalentNodeOps}

RECURSIVE RootReach(_, _)
\* the nodes a non-empty path of RootEdges leads to from S, dst-to-src
RootReach(g, S) ==
    LET step == {Edge(g, e).src : e \in {x \in RootEdges(g) : Edge(g, x).dst \in S}}
    IN IF step \subseteq S THEN step ELSE RootReach(g, S \cup step) \cup step

\* the upside search from s reaches a cycle of RootEdges
RootCycle(g, s) ==
    \E c \in RootReach(g, {s}) \cup {s} : c \in RootReach(g, {c})

\* C6, amended: collect_equivalent_locals(s) returns unless its upside search
\* reaches a cycle of equivalence-preserving edges among nodes tagged Nop, Use
\* or Ref (it then exhausts the stack); the set it returns is non-empty and
\* contains the root of the upside search if s is tagged Nop, Use or Ref, and
\* is empty if s has any other tag.
C6_ContainsRootIfEquivalentTag ==
    ~graph.panic =>
        \A s \in NodeIds(graph) :
            LET r == collect_equivalent_locals(graph, s)
            IN /\ r.overflow <=> RootCycle(graph, s)
               /\ ~r.overflow =>
                    IF Node(graph, s).op.tag \in EquivalentNodeOps
                    THEN r.value # {} /\ find_root(graph, s).root \in r.value
                    ELSE r.value = {}

\* a slot tagged Use whose root is another slot, upstream of a slot with a tag
\* that is none of Nop, Use, Ref, for which the set is empty
C6_Witness ==
    /\ ~graph.panic
    /\ \E s \in Locals :
          /\ Node(graph, s).op.tag = "Use"
          /\ ~collect_equivalent_locals(graph, s).overflow
          /\ find_root(graph, s).root # s
          /\ {s, find_root(graph, s).root} \subseteq collect_equivalent_locals(graph, s).value
    /\ \E s \in Locals :
          /\ Node(graph, s).op.tag \notin EquivalentNodeOps
          /\ collect_equivalent_locals(graph, s) = [overflow |-> FALSE, value |-> {}]

-----------------------------------------------------------------------------
(* C7 *)

\* C7: on every graph the builder has finished, param_return_deps() returns a
\* sequence of exactly argc + 1 booleans whose entry i is
\* is_connected(slot i, slot 0) for every i in 0..=argc and whose entry 0 is
\* true.
C7_ParamReturnDeps ==
    ~graph.panic =>
        LET r == param_return_deps(graph)
        IN /\ ~r.overflow
           /\ Len(r.value) = graph.argc + 1
           /\ \A i \in 0..graph.argc :
                 r.value[i + 1] = is_connected(graph, i, 0).value
           /\ r.value[1] = TRUE

-----------------------------------------------------------------------------
(* C8 *)

\* C8: after a call terminator whose target is a moved operand, whatever was
\* processed before it, the destination is tagged CallOperand, the source of
\* its first incoming edge, get_upside_idx(dst, 0), is the node resolved from
\* the callee operand, and its remaining incoming edges are the arguments of
\* the call, in order.
C8_FirstInEdgeIsCallee ==
    (Completed /\ Last.kind = "Call" /\ Last.func.k = "Move") =>
        LET dst == Last.place.local
            callee == parse_place(before, Last.func.place).ret
            in_edges == Node(graph, dst).in_edges
        IN /\ Node(graph, dst).op.tag = "CallOperand"
           /\ get_upside_idx(graph, dst, 0) = [some |-> TRUE, local |-> callee]
           /\ Len(in_edges) = 1 + Len(Last.args)
           /\ \A k \in 1..Len(Last.args) :
                 LET edge == Edge(graph, in_edges[k + 1])
                     arg == Last.args[k]
                 IN /\ edge.op.tag = (IF arg.k = "Constant" THEN "Const" ELSE arg.k)
                    /\ IsPlainCopyOrMove(arg) => edge.src = arg.place.local

-----------------------------------------------------------------------------
(* C9 *)

\* C9: when the only instruction processed is q = use(p), a copy or a move of
\* the parameter slot p without projections into a slot q other than p,
\* collect_equivalent_locals(q) returns exactly {p, q}.
C9_PlainUseOfParam ==
    (/\ Len(prog) = 1
     /\ Last.kind = "Assign"
     /\ Last.rvalue.k = "Use"
     /\ Last.place.projection = <<>>
     /\ IsPlainCopyOrMove(Last.rvalue.ops[1])
     /\ Last.rvalue.ops[1].place.local \in 1..graph.argc
     /\ Last.rvalue.ops[1].place.local # Last.place.local)
    => collect_equivalent_locals(graph, Last.place.local)
         = [overflow |-> FALSE,
            value |-> {Last.rvalue.ops[1].place.local, Last.place.local}]

\* q = move p has been processed, p a parameter tagged Nop and q the return slot
C9_Witness ==
    /\ Len(prog) = 1
    /\ Last.kind = "Assign"
    /\ Last.rvalue.k = "Use"
    /\ Last.place = Plain(0)
    /\ Last.rvalue.ops[1] = Move(Plain(2))
    /\ graph.argc = 2
    /\ Node(graph, 2).op.tag = "Nop"
    /\ collect_equivalent_locals(graph, 0).value = {0, 2}

-----------------------------------------------------------------------------
(* C10 *)

\* C10: when the only instruction processed is r = BinaryOp(a, b) with a, b, r
\* pairwise distinct slots and both operands copies or moves of plain slots,
\* is_connected(a, r) and is_connected(b, r) return true and is_connected(a, b)
\* returns false.
C10_BinaryOpReachability ==
    (/\ Len(prog) = 1
     /\ Last.kind = "Assign"
     /\ Last.rvalue.k = "BinaryOp"
     /\ Last.place.projection = <<>>
     /\ IsPlainCopyOrMove(Last.rvalue.ops[1])
     /\ IsPlainCopyOrMove(Last.rvalue.ops[2])
     /\ Cardinality({Last.rvalue.ops[1].place.local, Last.rvalue.ops[2].place.local,
                     Last.place.local}) = 3)
    => LET a == Last.rvalue.ops[1].place.local
           b == Last.rvalue.ops[2].place.local
           r == Last.place.local
       IN /\ is_connected(graph, a, r) = [overflow |-> FALSE, value |-> TRUE]
          /\ is_connected(graph, b, r) = [overflow |-> FALSE, value |-> TRUE]
          /\ is_connected(graph, a, b) = [overflow |-> FALSE, value |-> FALSE]

\* _1 = BinaryOp(copy _2, move _0) has been processed
C10_Witness ==
    /\ Len(prog) = 1
    /\ Last.kind = "Assign"
    /\ Last.rvalue.k = "BinaryOp"
    /\ Last.place = Plain(1)
    /\ Last.rvalue.ops = <<Copy(Plain(2)), Move(Plain(0))>>
    /\ Node(graph, 1).op.tag = "CheckedBinaryOp"
    /\ is_connected(graph, 2, 1).value
    /\ ~is_connected(graph, 2, 0).value

-----------------------------------------------------------------------------
(* C11 *)

\* C11: with argc = 1, when the only instruction processed assigns the return
\* slot _0 a plain use (copy or move) of the argument slot _1,
\* param_return_deps() returns [true, true]; when the only instruction
\* processed assigns _0 a constant operand, it returns [true, false].
C11_EndToEndDeps ==
    (/\ Len(prog) = 1
     /\ graph.argc = 1
     /\ Last.kind = "Assign"
     /\ Last.place = Plain(0)
     /\ Last.rvalue.k = "Use")
    => /\ (IsPlainCopyOrMove(Last.rvalue.ops[1]) /\ Last.rvalue.ops[1].place.local = 1)
            => param_return_deps(graph) = [overflow |-> FALSE, value |-> <<TRUE, TRUE>>]
       /\ Last.rvalue.ops[1].k = "Constant"
            => param_return_deps(graph) = [overflow |-> FALSE, value |-> <<TRUE, FALSE>>]

\* _0 = copy _1 has been processed in a procedure of one argument, and the
\* edge _1 -> _0 is what connects them
C11_Witness ==
    /\ Len(prog) = 1
    /\ graph.argc = 1
    /\ Last.kind = "Assign"
    /\ Last.place = Plain(0)
    /\ Last.rvalue = RvOperand("Use", Copy(Plain(1)))
    /\ Len(graph.edges) = 1
    /\ Edge(graph, 0).src = 1 /\ Edge(graph, 0).dst = 0
    /\ param_return_deps(graph).value = <<TRUE, TRUE>>

-----------------------------------------------------------------------------
(* C12 *)

\* the place with projection steps that the last assignment resolves: its
\* destination, or else the operand of its use
ParsedPlace ==
    IF Last.place.projection # <<>> THEN Last.place ELSE Last.rvalue.ops[1].place

\* the graph as parse_place finds it when it resolves ParsedPlace
ParsedIn ==
    IF Last.place.projection # <<>>
    THEN before
    ELSE SetNodeSpan(before, Last.place.local, Last.span)

HasParsedPlace ==
    /\ Len(prog) > 0
    /\ Last.kind = "Assign"
    /\ \/ Last.place.projection # <<>>
       \/ /\ Last.rvalue.k = "Use"
          /\ Last.rvalue.ops[1].k \in {"Copy", "Move"}
          /\ Last.rvalue.ops[1].place.projection # <<>>

\* the tag of the edge parse_one_step pushes for a projection step
StepEdgeTag(place_elem) ==
    CASE place_elem.k = "ConstantIndex" -> "ConstIndex"
      [] place_elem.k = "Subslice" -> "SubSlice"
      [] OTHER -> place_elem.k

\* C12: whenever parse_place returns from a place with base slot b and N
\* projection steps, it has appended exactly N nodes n1..nN to the node
\* collection, with ids not present before; it returns nN; the edges it pushed
\* are the edges into n1..nN, and those into nk are one edge from the previous
\* element of the chain b, n1, .., nN tagged with the step's edge operation
\* and, for an index step, a second one from the index slot; no node that
\* existed before the call other than b is an element of the chain.
C12_ParsePlaceChain ==
    HasParsedPlace =>
        LET g0 == ParsedIn
            place == ParsedPlace
            N == Len(place.projection)
            r == parse_place(g0, place)
            n0 == Len(g0.nodes)
            chain(k) == IF k = 0 THEN place.local ELSE n0 + k - 1
            pushed == {e \in EdgeIds(r.g) : e >= Len(g0.edges)}
            into(k) == {e \in pushed : Edge(r.g, e).dst = chain(k)}
        IN ~r.g.panic =>
             /\ Len(r.g.nodes) = n0 + N
             /\ r.ret = chain(N)
             /\ r.ret = statm_dst(before, Last) \/ Last.place.projection = <<>>
             /\ \A k \in 1..N : chain(k) \notin NodeIds(g0)
             /\ pushed = UNION {into(k) : k \in 1..N}
             /\ \A k \in 1..N :
                   LET step == place.projection[k]
                       prev == {e \in into(k) :
                                  /\ Edge(r.g, e).src = chain(k - 1)
                                  /\ Edge(r.g, e).op.tag = StepEdgeTag(step)}
                   IN /\ prev # {}
                      /\ \A e \in into(k) \ prev :
                            /\ step.k = "Index"
                            /\ Edge(r.g, e).src = step.idx
                            /\ Edge(r.g, e).op.tag = "Index"
                      /\ Cardinality(into(k)) = IF step.k = "Index" THEN 2 ELSE 1
             /\ \A n \in NodeIds(g0) : Node(r.g, n).op = Node(g0, n).op

\* a destination of two steps, a field of a dereference, has been resolved: the
\* assignment wrote the second of the two nodes the steps made
C12_Witness ==
    /\ HasParsedPlace
    /\ ~graph.panic
    /\ Last.place.projection = <<PlaceElem("Deref", 0, ""), PlaceElem("Field", 0, "0")>>
    /\ Len(graph.nodes) = Len(before.nodes) + 2
    /\ Node(graph, Len(before.nodes) + 1).op.tag = "Use"
    /\ Edge(graph, 1).src = Len(before.nodes) /\ Edge(graph, 1).dst = Len(before.nodes) + 1

-----------------------------------------------------------------------------
(* C13 *)

IsPrefix(s, t) == Len(s) <= Len(t) /\ \A i \in 1..Len(s) : s[i] = t[i]

\* C13: every step of the builder is append-only: the node count and the edge
\* count do not decrease, every edge that existed before the step has the same
\* id, src, dst, op and seq after it, and the in_edges and the out_edges of
\* every node before the step are prefixes of its lists after it.
C13_AppendOnly ==
    [][/\ Len(graph'.nodes) >= Len(graph.nodes)
       /\ Len(graph'.edges) >= Len(graph.edges)
       /\ \A e \in EdgeIds(graph) : Edge(graph', e) = Edge(graph, e)
       /\ \A n \in NodeIds(graph) :
             /\ IsPrefix(Node(graph, n).in_edges, Node(graph', n).in_edges)
             /\ IsPrefix(Node(graph, n).out_edges, Node(graph', n).out_edges)]_vars

\* the last instruction pushed nodes and edges on a graph that had edges, and
\* lengthened an in_edges list and an out_edges list that were not empty
C13_Witness ==
    /\ Len(graph.nodes) > Len(before.nodes)
    /\ Len(graph.edges) > Len(before.edges)
    /\ \E n \in NodeIds(before) :
          /\ Node(before, n).in_edges # <<>>
          /\ Len(Node(graph, n).in_edges) > Len(Node(before, n).in_edges)
    /\ \E n \in NodeIds(before) :
          /\ Node(before, n).out_edges # <<>>
          /\ Len(Node(graph, n).out_edges) > Len(Node(before, n).out_edges)

-----------------------------------------------------------------------------
(* C14 *)

\* C14: for every node n and every ordinal k, get_upside_idx(n, k) is the src
\* of the k-th edge of n.in_edges when k < |n.in_edges| and none otherwise,
\* and get_downside_idx(n, k) is the dst of the k-th edge of n.out_edges when
\* k < |n.out_edges| and none otherwise.
C14_NeighborAccessors ==
    \A n \in NodeIds(graph) :
        \A k \in 0..(Len(graph.edges) + 1) :
            LET in_edges == Node(graph, n).in_edges
                out_edges == Node(graph, n).out_edges
                up == get_upside_idx(graph, n, k)
                down == get_downside_idx(graph, n, k)
            IN /\ up.some <=> k < Len(in_edges)
               /\ up.some => up.local = Edge(graph, in_edges[k + 1]).src
               /\ down.some <=> k < Len(out_edges)
               /\ down.some => down.local = Edge(graph, out_edges[k + 1]).dst

\* a node with two incoming edges from different nodes and a node with two
\* outgoing edges to different nodes: ordinal 1 answers with the second
\* neighbor, ordinal 2 with none
C14_Witness ==
    /\ \E n \in NodeIds(graph) :
          /\ Len(Node(graph, n).in_edges) = 2
          /\ get_upside_idx(graph, n, 0).local # get_upside_idx(graph, n, 1).local
          /\ get_upside_idx(graph, n, 1).some
          /\ ~get_upside_idx(graph, n, 2).some
    /\ \E n \in NodeIds(graph) :
          /\ Len(Node(graph, n).out_edges) = 2
          /\ get_downside_idx(graph, n, 0).local # get_downside_idx(graph, n, 1).local
          /\ get_downside_idx(graph, n, 1).some
          /\ ~get_downside_idx(graph, n, 2).some

-----------------------------------------------------------------------------
(* C15 *)

\* the tag of the node the last instruction wrote, as the instruction found it
TagBefore == IF LastDst < Len(before.nodes) THEN Node(before, LastDst).op ELSE NodeOp("Nop", "")

\* its span as the instruction found it
SpanBefore == IF LastDst < Len(before.nodes) THEN Node(before, LastDst).span ELSE DUMMY_SP

\* C15: when add_terminator_to_graph has processed a call whose target is a
\* copied operand or a constant that does not denote a function definition,
\* the build has aborted, and the span and the seq of the destination are
\* those it had before the terminator.
C15_UnsupportedCallTarget ==
    (/\ Len(prog) > 0
     /\ Last.kind = "Call"
     /\ \/ Last.func.k = "Copy"
        \/ Last.func.k = "Constant" /\ Last.func.cst # "FnDef")
    => /\ graph.panic
       /\ Node(graph, LastDst).span = SpanBefore
       /\ Node(graph, LastDst).seq = SeqBefore

-----------------------------------------------------------------------------
(* C16 *)

\* the right-hand sides the claim enumerates
EnumeratedRvalue(rvalue) ==
    \/ rvalue.k \in {"Use", "Repeat", "Cast", "UnaryOp", "BinaryOp", "Ref", "Len",
                     "Discriminant", "CopyForDeref", "NullaryOp"}
    \/ rvalue.k = "Aggregate" /\ rvalue.agg \in {"Array", "Tuple", "Adt", "Closure"}

\* the build aborted, and the destination has the tag and the seq it had
Unsupported ==
    /\ graph.panic
    /\ Node(graph, LastDst).op = TagBefore
    /\ Node(graph, LastDst).seq = SeqBefore

\* C16: when add_statm_to_graph has processed an assignment whose right-hand
\* side is not one of the enumerated shapes, the build has aborted and the
\* destination has neither a new tag nor a seq increment.
C16_UnsupportedRvalue ==
    (Len(prog) > 0 /\ Last.kind = "Assign" /\ ~EnumeratedRvalue(Last.rvalue))
    => Unsupported

\* C16, amended: the same for a right-hand side that is neither one of the
\* enumerated shapes nor a shallow-init-box; a shallow-init-box is translated
\* like a use: its operand is resolved into the destination, the destination
\* is tagged ShallowInitBox and its seq is incremented.
C16_UnsupportedUnlessShallowInitBox ==
    (Len(prog) > 0 /\ Last.kind = "Assign") =>
        /\ (~EnumeratedRvalue(Last.rvalue) /\ Last.rvalue.k # "ShallowInitBox")
              => Unsupported
        /\ (Last.rvalue.k = "ShallowInitBox" /\ IsPlainCopyOrMove(Last.rvalue.ops[1])
              /\ Last.place.projection = <<>>)
              => /\ ~graph.panic
                 /\ Node(graph, LastDst).op = NodeOp("ShallowInitBox", "")
                 /\ Node(graph, LastDst).seq = SeqBefore + 1
                 /\ \E e \in NewEdgesInto(LastDst) :
                       Edge(graph, e).src = Last.rvalue.ops[1].place.local

\* an aggregate of an unsupported kind was assigned to a slot a use had
\* written: its operands were resolved, the build aborted, and the slot is
\* still tagged Use with seq 1
C16_Witness ==
    /\ Len(prog) = 2
    /\ Last.kind = "Assign"
    /\ Last.rvalue.k = "Aggregate"
    /\ Last.rvalue.agg = "Coroutine"
    /\ graph.panic
    /\ NewEdgesInto(LastDst) # {}
    /\ Node(graph, LastDst).op = NodeOp("Use", "")
    /\ Node(graph, LastDst).seq = 1

-----------------------------------------------------------------------------
(* C17 *)

-----------------------------------------------------------------------------
(* C18 *)

\* C18: on every graph the builder has finished, every call is_connected(a, b)
\* returns, param_return_deps() returns, and collect_equivalent_locals(s)
\* returns for every slot s.
C18_QueriesTerminate ==
    ~graph.panic =>
        /\ \A a, b \in NodeIds(graph) : ~is_connected(graph, a, b).overflow
        /\ ~param_return_deps(graph).overflow
        /\ \A s \in Locals : ~collect_equivalent_locals(graph, s).overflow

-----------------------------------------------------------------------------
(* C19 *)

\* the value-preserving edges
ValueEdges(g) ==
    {e \in EdgeIds(g) : Edge(g, e).op.tag \in {"Copy", "Move", "Immut", "Mut"}}

RECURSIVE ValueReach(_, _)
\* the nodes a non-empty path of value-preserving edges leads to from S
ValueReach(g, S) ==
    LET step == {Edge(g, e).dst : e \in {x \in ValueEdges(g) : Edge(g, x).src \in S}}
    IN IF step \subseteq S THEN step ELSE ValueReach(g, S \cup step) \cup step

\* C19: every graph the builder constructs is acyclic along value-preserving
\* edges: no node is reached from itself by a non-empty path of edges tagged
\* Copy, Move, Immut or Mut, a self-loop included.
C19_AcyclicValueEdges ==
    \A n \in NodeIds(graph) : n \notin ValueReach(graph, {n})

-----------------------------------------------------------------------------
(* C20 *)

\* the node operators a search is run with: is_connected's for every target,
\* and the two of collect_equivalent_locals
NodeOperators(g) ==
    {Closure("is_connected", b) : b \in NodeIds(g)}
    \cup {Closure("find_root", 0), Closure("find_equivalent", 0)}

\* dfs from a with traverse_all = false
SearchFirst(g, a, direction, f, v) == dfs(g, a, direction, f, v, FALSE, DfsState(a), 1)

\* C20: in a dfs with traverse_all = false that returns, a Stop of the node
\* operator is the last thing that happens: after it the node operator is
\* invoked on no further node and the edge validator on no further edge, and
\* the top-level call returns Stop.
C20_StopHaltsSearch ==
    \A a \in NodeIds(graph), direction \in {"Upside", "Downside", "Both"},
       v \in {"equivalent", "always_true"} :
        \A f \in NodeOperators(graph) :
            LET r == SearchFirst(graph, a, direction, f, v)
                t == r.st.trace
            IN ~r.st.overflow =>
                 /\ \A i \in 1..Len(t) :
                       (t[i].kind = "node" /\ t[i].status = "Stop")
                       => (i = Len(t) /\ r.status = "Stop")
                 /\ r.status = "Stop" => (t[Len(t)].kind = "node" /\ t[Len(t)].status = "Stop")

\* an upside search for a target two edges away returned Stop through two
\* levels of the recursion and left an incoming edge of a node it had entered
\* unexamined
C20_Witness ==
    \E a, b \in NodeIds(graph) :
        LET r == SearchFirst(graph, a, "Upside", Closure("is_connected", b), "always_true")
            t == r.st.trace
            entered == {t[i].id : i \in {j \in 1..Len(t) : t[j].kind = "node"}}
            examined == {t[i].id : i \in {j \in 1..Len(t) : t[j].kind = "edge"}}
        IN /\ ~r.st.overflow
           /\ r.status = "Stop"
           /\ Cardinality(entered) = 3
           /\ \E e \in EdgeIds(graph) :
                 /\ Edge(graph, e).dst \in entered \ {b}
                 /\ e \notin examined

-----------------------------------------------------------------------------
(* C21 *)

\* the edges dfs looks at from node n in a direction: its in_edges (upside),
\* its out_edges (downside), both lists (both)
EdgesFrom(g, n, direction) ==
    (IF direction \in {"Upside", "Both"} THEN Range(Node(g, n).in_edges) ELSE {})
    \cup (IF direction \in {"Downside", "Both"} THEN Range(Node(g, n).out_edges) ELSE {})

\* the nodes those edges lead to: the src of an incoming edge, the dst of an
\* outgoing one
Neighbors(g, n, E, direction) ==
    (IF direction \in {"Upside", "Both"}
     THEN {Edge(g, e).src : e \in E \cap Range(Node(g, n).in_edges)} ELSE {})
    \cup (IF direction \in {"Downside", "Both"}
          THEN {Edge(g, e).dst : e \in E \cap Range(Node(g, n).out_edges)} ELSE {})

RECURSIVE StepReach(_, _, _)
\* the nodes a non-empty path leads to from S in a direction
StepReach(g, S, direction) ==
    LET step == UNION {Neighbors(g, n, EdgeIds(g), direction) : n \in S}
    IN IF step \subseteq S THEN step ELSE StepReach(g, S \cup step, direction) \cup step

\* the graph is acyclic in a direction: no path in that direction leads from a
\* node back to it (in direction both, an edge is followed from either end)
Acyclic(g, direction) == \A n \in NodeIds(g) : n \notin StepReach(g, {n}, direction)

\* the status of a node operator that does not depend on the search state
StatusAt(g, f, n) == node_operator(f, g, n, DfsState(n)).status

RECURSIVE ReachUnder(_, _, _, _, _)
\* S, and every node a path in the direction leads to from S whose edges the
\* edge validator admits and whose nodes before the last receive Continue
ReachUnder(g, S, direction, f, v) ==
    LET step == UNION {Neighbors(g, n,
                                 {e \in EdgeIds(g) : edge_validator(v, g, e) = "Continue"},
                                 direction) :
                         n \in {m \in S : StatusAt(g, f, m) = "Continue"}}
    IN IF step \subseteq S THEN S ELSE ReachUnder(g, S \cup step, direction, f, v)

\* dfs from a with traverse_all = true
SearchAll(g, a, direction, f, v) == dfs(g, a, direction, f, v, TRUE, DfsState(a), 1)

\* the node operators that do not read the search state
PureNodeOperators(g) ==
    {Closure("is_connected", b) : b \in NodeIds(g)} \cup {Closure("find_root", 0)}

\* C21: on a graph acyclic in the chosen direction, dfs with traverse_all =
\* true and a node operator that does not read the search state returns, and
\* the nodes it invoked the node operator on are exactly the start node and
\* every node a path in that direction leads to from it whose edges the edge
\* validator admits and whose nodes before the last receive Continue; the
\* edges it examined are the edges of the nodes that received Continue, so no
\* edge of a node that received Stop is followed.
C21_TraverseAllVisitsReachable ==
    \A direction \in {"Upside", "Downside", "Both"} :
        Acyclic(graph, direction) =>
            \A a \in NodeIds(graph), v \in {"equivalent", "always_true"} :
                \A f \in PureNodeOperators(graph) :
                    LET r == SearchAll(graph, a, direction, f, v)
                        t == r.st.trace
                        invoked == {t[i].id : i \in {j \in 1..Len(t) : t[j].kind = "node"}}
                        examined == {t[i].id : i \in {j \in 1..Len(t) : t[j].kind = "edge"}}
                    IN /\ ~r.st.overflow
                       /\ invoked = ReachUnder(graph, {a}, direction, f, v)
                       /\ examined =
                            UNION {EdgesFrom(graph, n, direction) :
                                     n \in {m \in invoked : StatusAt(graph, f, m) = "Continue"}}
                       /\ \A n \in invoked :
                             StatusAt(graph, f, n) = "Stop"
                             => EdgesFrom(graph, n, direction) \cap examined = {}

\* a downside search with the predicates of the upside search of
\* collect_equivalent_locals went on after a Stop: of the two nodes below the
\* start, the first received Stop, its edge was not followed, and the second
\* was still entered
C21_Witness ==
    /\ Acyclic(graph, "Downside")
    /\ \E a \in NodeIds(graph) :
          LET r == SearchAll(graph, a, "Downside", Closure("find_root", 0), "equivalent")
              t == r.st.trace
          IN /\ Len(t) >= 5
             /\ t[1] = [kind |-> "node", id |-> a, status |-> "Continue"]
             /\ t[2].kind = "edge" /\ t[2].status = "Continue"
             /\ t[3].kind = "node" /\ t[3].status = "Stop"
             /\ Node(graph, t[3].id).out_edges # <<>>
             /\ t[4].kind = "edge" /\ t[4].status = "Continue"
             /\ t[5].kind = "node" /\ t[5].id # t[3].id

-----------------------------------------------------------------------------
(* C22 *)

\* C22: on every graph the builder has finished, for all slots a and b tagged
\* Nop, Use or Ref for which collect_equivalent_locals returns, if b is in
\* collect_equivalent_locals(a) then a is in collect_equivalent_locals(b).
C22_Symmetric ==
    ~graph.panic =>
        \A a, b \in Locals :
            LET ra == collect_equivalent_locals(graph, a)
                rb == collect_equivalent_locals(graph, b)
            IN (/\ Node(graph, a).op.tag \in EquivalentNodeOps
                /\ Node(graph, b).op.tag \in EquivalentNodeOps
                /\ ~ra.overflow /\ ~rb.overflow
                /\ b \in ra.value)
               => a \in rb.value

-----------------------------------------------------------------------------
(* C23 *)

\* C23: on every graph the builder has finished and for every node s tagged
\* Nop, Use or Ref on which collect_equivalent_locals(s) returns, the set it
\* returns contains s, and every member of the set is tagged Nop, Use or Ref.
C23_ContainsSelfOnlyEquivalentTags ==
    ~graph.panic =>
        \A s \in NodeIds(graph) :
            LET r == collect_equivalent_locals(graph, s)
            IN (Node(graph, s).op.tag \in EquivalentNodeOps /\ ~r.overflow)
               => /\ s \in r.value
                  /\ \A m \in r.value : Node(graph, m).op.tag \in EquivalentNodeOps

\* the set of a slot tagged Use holds the slot, its root and a slot tagged
\* Ref, and leaves out a slot of another tag that an equivalence-preserving
\* edge from a member of the set leads to
C23_Witness ==
    /\ ~graph.panic
    /\ \E s \in Locals :
          LET r == collect_equivalent_locals(graph, s)
          IN /\ Node(graph, s).op.tag = "Use"
             /\ ~r.overflow
             /\ s \in r.value
             /\ find_root(graph, s).root \in r.value \ {s}
             /\ \E e \in EdgeIds(graph) :
                   /\ equivalent_edge_validator(graph, e) = "Continue"
                   /\ Edge(graph, e).src \in r.value
                   /\ Edge(graph, e).dst \notin r.value
                   /\ Node(graph, Edge(graph, e).dst).op.tag \notin EquivalentNodeOps

-----------------------------------------------------------------------------
(* C24 *)

\* how many incoming edges the node the last instruction wrote had before the
\* instruction
InEdgesBefore ==
    IF LastDst < Len(before.nodes) THEN Len(Node(before, LastDst).in_edges) ELSE 0

\* how many it had once the instruction had resolved its destination place
InEdgesResolved == Len(Node(parse_place(before, Last.place).g, LastDst).in_edges)

\* the edge add_operand pushes for an operand comes from the operand
FromOperand(edge, operand) ==
    /\ edge.op.tag = (IF operand.k = "Constant" THEN "Const" ELSE operand.k)
    /\ IsPlainCopyOrMove(operand) => edge.src = operand.place.local
    /\ operand.k = "Constant"
         => /\ edge.src >= Len(before.nodes)
            /\ Node(graph, edge.src).op = NodeOp("Const", operand.text)
    /\ (operand.k # "Constant" /\ operand.place.projection # <<>>)
         => /\ edge.src >= Len(before.nodes)
            /\ Node(graph, edge.src).op.tag = "Nop"

\* the incoming edges of the written node past its first had ones are one per
\* operand of the last assignment, in operand order
OperandEdges(had) ==
    LET ops == Last.rvalue.ops
        in_edges == Node(graph, LastDst).in_edges
        appended == SubSeq(in_edges, had + 1, Len(in_edges))
    IN /\ Len(appended) = Len(ops)
       /\ Last.rvalue.k \in {"Use", "Repeat", "Cast", "UnaryOp"} => Len(appended) = 1
       /\ Last.rvalue.k = "BinaryOp" => Len(appended) = 2
       /\ \A k \in 1..Len(appended) :
             /\ appended[k] \in NewEdges
             /\ Edge(graph, appended[k]).dst = LastDst
             /\ FromOperand(Edge(graph, appended[k]), ops[k])
       /\ \A j, k \in 1..Len(appended) : j < k => appended[j] < appended[k]
       /\ Last.rvalue.k = "BinaryOp" => Node(graph, LastDst).op = NodeOp("CheckedBinaryOp", "")

HasOperandEdges ==
    /\ Completed
    /\ Last.kind = "Assign"
    /\ Last.rvalue.k \in {"Use", "Repeat", "Cast", "UnaryOp", "BinaryOp", "Aggregate"}

\* C24: after an assignment whose right-hand side is a use, repeat, cast,
\* unary-op, binary-op or aggregate, the incoming edges appended to the
\* destination are one per operand, in operand order: one for use, repeat,
\* cast and unary-op, two (left, then right) for binary-op, one per listed
\* operand in list order for an aggregate; after a binary-op the destination
\* is tagged CheckedBinaryOp.
C24_OperandEdges == HasOperandEdges => OperandEdges(InEdgesBefore)

\* C24, amended: the same of the incoming edges appended to the destination
\* after the destination place has been resolved; resolving a destination
\* with projection steps makes the destination node and pushes the edges of
\* the last step into it first, one edge, or two for an index step.
C24_OperandEdgesAfterPlace ==
    HasOperandEdges =>
        /\ OperandEdges(InEdgesResolved)
        /\ InEdgesResolved - InEdgesBefore =
             (IF Last.place.projection = <<>> THEN 0
              ELSE IF Last.place.projection[Len(Last.place.projection)].k = "Index" THEN 2
              ELSE 1)

\* a use of a slot was assigned through a dereference: the destination node
\* was made by the assignment, its first incoming edge is the Deref edge and
\* its second the Copy edge of the operand
C24_Witness ==
    /\ HasOperandEdges
    /\ Last.place.projection = <<PlaceElem("Deref", 0, "")>>
    /\ Last.rvalue.ops[1].k = "Copy"
    /\ LastDst >= Len(before.nodes)
    /\ Len(Node(graph, LastDst).in_edges) = 2
    /\ Edge(graph, Node(graph, LastDst).in_edges[1]).op.tag = "Deref"
    /\ Edge(graph, Node(graph, LastDst).in_edges[2]).op.tag = "Copy"

-----------------------------------------------------------------------------
(* C25 *)

\* C25: whenever parse_place returns, each of its steps has made exactly one
\* node; the incoming edges of the node of an index step are two, the first
\* from the indexed object and the second from the index slot, both tagged
\* Index and of the same seq; the node of a step of any other kind (Deref,
\* Field, Downcast, ConstantIndex, Subslice) has exactly one incoming edge.
C25_IndexStepTwoEdges ==
    HasParsedPlace =>
        LET g0 == ParsedIn
            place == ParsedPlace
            N == Len(place.projection)
            r == parse_place(g0, place)
            n0 == Len(g0.nodes)
            made(k) == n0 + k - 1
            object(k) == IF k = 1 THEN place.local ELSE made(k - 1)
        IN ~r.g.panic =>
             /\ Len(r.g.nodes) = n0 + N
             /\ \A k \in 1..N :
                   LET step == place.projection[k]
                       in_edges == Node(r.g, made(k)).in_edges
                   IN IF step.k = "Index"
                      THEN /\ Len(in_edges) = 2
                           /\ in_edges[1] < in_edges[2]
                           /\ Edge(r.g, in_edges[1]).src = object(k)
                           /\ Edge(r.g, in_edges[2]).src = step.idx
                           /\ Edge(r.g, in_edges[1]).op = EdgeOp("Index", "")
                           /\ Edge(r.g, in_edges[2]).op = EdgeOp("Index", "")
                           /\ Edge(r.g, in_edges[1]).seq = Edge(r.g, in_edges[2]).seq
                      ELSE /\ Len(in_edges) = 1
                           /\ Edge(r.g, in_edges[1]).src = object(k)
                           /\ Edge(r.g, in_edges[1]).op.tag = StepEdgeTag(step)

\* _0 = move (*_1)[_2] has been processed: the node of the index step has the
\* edge from the node of the dereference first and the edge from _2 second
C25_Witness ==
    /\ HasParsedPlace
    /\ ~graph.panic
    /\ ParsedPlace = Place(1, <<PlaceElem("Deref", 0, ""), PlaceElem("Index", 2, "")>>)
    /\ Len(graph.nodes) = Len(before.nodes) + 2
    /\ LET in_edges == Node(graph, Len(before.nodes) + 1).in_edges
       IN /\ Len(in_edges) = 2
          /\ Edge(graph, in_edges[1]).src = Len(before.nodes)
          /\ Edge(graph, in_edges[2]).src = 2
          /\ Edge(graph, in_edges[1]).op.tag = "Index"
          /\ Edge(graph, in_edges[2]).op.tag = "Index"

====
